---- MODULE Spec2Model ----
(***************************************************************************)
(* A model of check-package.js: one run of the script, i.e. one call of    *)
(* doCheck(package) followed by the .then/.catch/.catch report chain.      *)
(*                                                                         *)
(* Every await of doCheck is one action.  An external call (HTTP, git,     *)
(* shell, file system) succeeds or fails nondeterministically.  Strings    *)
(* that the code inspects (tag names, the version) are sequences of        *)
(* characters; file contents are sequences of raw lines.                   *)
(***************************************************************************)
EXTENDS Naturals, Sequences, FiniteSets

(***************************************************************************)
(* Bounds of the model.                                                    *)
(***************************************************************************)
MaxStrLen == 2      \* longest tag name / version string
MaxTags == 2        \* longest tag list returned by g.tags()
MaxFiles == 2       \* most files found under the npm tree
MaxLines == 1       \* most lines of a reference file (a candidate has one more)

Chars == {"1", "2"}
\* The lines of the texts given to the comparator alone, and the lines of the
\* files of a run (doCheck looks only at the length of each recorded diff).
RawLines == {"a", "a ", "b", " "}
TreeLines == {"a", "a "}

RECURSIVE SeqsUpTo(_, _)
SeqsUpTo(S, n) ==
    IF n = 0 THEN {<<>>}
    ELSE LET shorter == SeqsUpTo(S, n - 1)
         IN  shorter \cup {Append(s, x) : s \in {t \in shorter : Len(t) = n - 1}, x \in S}

Strings == SeqsUpTo(Chars, MaxStrLen) \ {<<>>}
TagLists == SeqsUpTo(Strings, MaxTags)
RefContents == SeqsUpTo(RawLines, MaxLines)
CompareContents == SeqsUpTo(RawLines, MaxLines + 1)
TreeRefContents == SeqsUpTo(TreeLines, MaxLines)
TreeCompareContents == SeqsUpTo(TreeLines, MaxLines + 1)

(***************************************************************************)
(* cloneVersionToDir: String.prototype.includes and Array.prototype.find.  *)
(***************************************************************************)
Includes(t, v) ==
    \E i \in 1..(Len(t) + 1) :
        /\ i + Len(v) - 1 <= Len(t)
        /\ \A k \in 1..Len(v) : t[i + k - 1] = v[k]

Matches(tagList, v) == {i \in 1..Len(tagList) : Includes(tagList[i], v)}

Min(S) == CHOOSE x \in S : \A y \in S : x <= y
Max(S) == CHOOSE x \in S : \A y \in S : x >= y

\* find() with the last match instead of the first.
FindTagLast(tagList, v) ==
    IF Matches(tagList, v) = {} THEN <<>> ELSE tagList[Max(Matches(tagList, v))]

\* tags.find(t => t.includes(version)); <<>> stands for undefined (no tag is
\* the empty string, so !tag holds exactly when find returned undefined).
FindTag(tagList, v) ==
    IF Matches(tagList, v) = {} THEN <<>> ELSE tagList[Min(Matches(tagList, v))]

(***************************************************************************)
(* diff.diffTrimmedLines(ref, cmp, {newlineIsToken: true}) of the jsdiff   *)
(* package, as called by compareDirs.                                      *)
(*   - the text is split at the newlines; with ignoreWhitespace every      *)
(*     token is trimmed, a newline token trims to the empty string, and    *)
(*     empty tokens are dropped: the tokens are the trimmed, non-blank     *)
(*     lines;                                                              *)
(*   - the result is a shortest edit script, consecutive tokens of one     *)
(*     kind merged into one change object;                                 *)
(*   - a change object made for an insertion or a deletion is              *)
(*     {count, added: a, removed: r, value}, one of a, r being true and    *)
(*     the other undefined: both keys exist on it.  A change object for    *)
(*     common text is {count, value}.                                      *)
(*   - tokenizing undefined throws a TypeError (undefined.split).          *)
(***************************************************************************)
Trim(line) == CASE line = "a " -> "a" [] line = " " -> "" [] OTHER -> line

RECURSIVE Tokenize(_)
Tokenize(text) ==
    IF text = <<>> THEN <<>>
    ELSE IF Trim(Head(text)) = "" THEN Tokenize(Tail(text))
         ELSE <<Trim(Head(text))>> \o Tokenize(Tail(text))

RECURSIVE LcsLen(_, _)
LcsLen(old, new) ==
    IF old = <<>> \/ new = <<>> THEN 0
    ELSE IF Head(old) = Head(new) THEN 1 + LcsLen(Tail(old), Tail(new))
         ELSE LET r == LcsLen(Tail(old), new)
                  a == LcsLen(old, Tail(new))
              IN  IF r >= a THEN r ELSE a

\* One edit per token: a shortest edit script, a deletion before an insertion.
RECURSIVE EditScript(_, _)
EditScript(old, new) ==
    IF old = <<>> /\ new = <<>> THEN <<>>
    ELSE IF old = <<>> THEN <<[kind |-> "added", value |-> Head(new)]>> \o EditScript(old, Tail(new))
    ELSE IF new = <<>> THEN <<[kind |-> "removed", value |-> Head(old)]>> \o EditScript(Tail(old), new)
    ELSE IF Head(old) = Head(new)
         THEN <<[kind |-> "common", value |-> Head(old)]>> \o EditScript(Tail(old), Tail(new))
    ELSE IF LcsLen(Tail(old), new) >= LcsLen(old, Tail(new))
         THEN <<[kind |-> "removed", value |-> Head(old)]>> \o EditScript(Tail(old), new)
    ELSE <<[kind |-> "added", value |-> Head(new)]>> \o EditScript(old, Tail(new))

\* Consecutive edits of one kind become one change object.
RECURSIVE Components(_)
Components(edits) ==
    IF edits = <<>> THEN <<>>
    ELSE LET rest == Components(Tail(edits))
             e == Head(edits)
         IN  IF rest # <<>> /\ Head(rest).kind = e.kind
             THEN <<[kind |-> e.kind, count |-> Head(rest).count + 1,
                     value |-> <<e.value>> \o Head(rest).value]>> \o Tail(rest)
             ELSE <<[kind |-> e.kind, count |-> 1, value |-> <<e.value>>]>> \o rest

diffTrimmedLines(refText, cmpText) == Components(EditScript(Tokenize(refText), Tokenize(cmpText)))

\* d.hasOwnProperty('added'): the key exists on inserted and on deleted
\* change objects, and not on common ones.
HasOwnAdded(d) == d.kind \in {"added", "removed"}

IsAdded(d) == d.kind = "added"

\* The expression of lines 203: the diff kept for one file.
RecordedDiff(refText, cmpText) == SelectSeq(diffTrimmedLines(refText, cmpText), HasOwnAdded)

(***************************************************************************)
(* doCheck, lines 167-168.                                                 *)
(***************************************************************************)
NonEmptyDiff(d) == Len(d.diff) > 0

\* Array.prototype.find in place of filter: only the first entry with a diff.
ValidDiffsFirst(list) ==
    IF SelectSeq(list, NonEmptyDiff) = <<>> THEN <<>>
    ELSE <<Head(SelectSeq(list, NonEmptyDiff))>>

\* diff.filter(d => d.diff.length)
ValidDiffs(list) == SelectSeq(list, NonEmptyDiff)

(***************************************************************************)
(* Values a promise is rejected with.                                      *)
(***************************************************************************)
Err(kind, at) == [kind |-> kind, at |-> at, diffs |-> <<>>]
NoError == Err("none", "none")
\* exec rejects with {message: "Failed to exec [cmd]", error: err}
ExecError(cmd) == Err("ExecError", cmd)
Thrown(list) == [kind |-> "Diffs", at |-> "doCheck", diffs |-> list]

Pending == [state |-> "pending", value |-> NoError]
Resolved == [state |-> "resolved", value |-> NoError]
Rejected(e) == [state |-> "rejected", value |-> e]

\* The result of readFile: the text, or undefined when the read failed and
\* the failure was swallowed.
Text(t) == [defined |-> TRUE, text |-> t]
Undefined == [defined |-> FALSE, text |-> <<>>]

\* What the callback of compareDirs does once both reads are over, lines
\* 201-204: it returns the recorded diff, or diffTrimmedLines throws.
NotCalled == [state |-> "none", diff |-> <<>>]
Callback(refText, cmp) ==
    IF cmp.defined
    THEN [state |-> "returned", diff |-> RecordedDiff(refText, cmp.text)]
    ELSE [state |-> "threw", diff |-> <<>>]

VARIABLES
    version,        \* package.version
    repository,     \* packageData.repository: "unknown", "none", "git", "svn"
    pc,             \* the await doCheck is at
    started,        \* the operations of doCheck that were started
    outcome,        \* the promise returned by doCheck
    firstFailure,   \* the error of the first operation that failed
    lateStarts,     \* operations started after firstFailure
    dirs,           \* directories made under tmp/
    tags,           \* cloneVersionToDir: tags
    tag,            \* cloneVersionToDir: tag
    checkedOut,     \* the ref the git tree is at
    tarball,        \* the .tgz on disk: "absent", "partial", "complete"
    untarSaw,       \* the .tgz as tar found it
    nFiles,         \* compareDirs: refFilePaths.length
    cbState,        \* compareDirs: the callback of each file
    entries,        \* compareDirs: the value each callback returned
    unreadable,     \* files whose candidate could not be read
    diff,           \* doCheck: diff
    hpc,            \* the handler of the report chain that runs next
    caught,         \* the rejection the .catch handler received
    reports,        \* grades written by repo.writeFile
    evidence,       \* the payload of the 'F' report
    issue,          \* an issue was created
    exited,         \* the process has ended
    exitCode,       \* its exit code
    refFileContent,     \* comparator alone: the reference text
    compareFileContent, \* comparator alone: the candidate text
    fileDiff            \* comparator alone: the diff recorded for the file

checkVars == <<pc, started, outcome, firstFailure>>
inputVars == <<version, repository>>
gitVars == <<tags, tag, checkedOut>>
tarVars == <<tarball, untarSaw>>
compareVars == <<nFiles, cbState, entries, unreadable, diff>>
chainVars == <<hpc, caught, reports, evidence, issue, exited, exitCode>>
diffVars == <<refFileContent, compareFileContent, fileDiff>>
vars == <<checkVars, inputVars, gitVars, tarVars, compareVars, chainVars, diffVars,
          lateStarts, dirs>>

InitRun ==
    /\ repository = "unknown"
    /\ pc = "getJSON"
    /\ started = {}
    /\ outcome = Pending
    /\ firstFailure = NoError
    /\ lateStarts = {}
    /\ dirs = {}
    /\ tags = <<>>
    /\ tag = <<>>
    /\ checkedOut = <<>>
    /\ tarball = "absent"
    /\ untarSaw = "absent"
    /\ nFiles = 0
    /\ cbState = <<>>
    /\ entries = <<>>
    /\ unreadable = {}
    /\ diff = <<>>
    /\ hpc = "pending"
    /\ caught = NoError
    /\ reports = {}
    /\ evidence = NoError
    /\ issue = FALSE
    /\ exited = FALSE
    /\ exitCode = 0

Init ==
    /\ version \in Strings
    /\ InitRun
    /\ refFileContent = <<>>
    /\ compareFileContent = Undefined
    /\ fileDiff = NotCalled

(***************************************************************************)
(* doCheck                                                                 *)
(***************************************************************************)
\* An operation at `step` succeeds and doCheck goes on to `next`.
Proceed(step, next) ==
    /\ pc = step
    /\ pc' = next
    /\ started' = started \cup {step}
    /\ UNCHANGED <<outcome, firstFailure>>

\* An operation at `step` fails with e: the await throws, the catch of line
\* 173 rethrows, doCheck rejects with e.
Abort(step, e) ==
    /\ pc = step
    /\ pc' = "settled"
    /\ started' = started \cup {step}
    /\ outcome' = Rejected(e)
    /\ firstFailure' = e

\* lines 131-138 with the test of repository.type left out.
RepositoryPresent(r) == r # "none"

\* lines 131-138: a repository object, of type git.
RepositoryUsable(r) == r # "none" /\ r = "git"

\* line 129, then lines 131-138.
GetJSON ==
    /\ pc = "getJSON"
    /\ \/ /\ Abort("getJSON", Err("AxiosError", "getJSON"))
          /\ UNCHANGED repository
       \/ \E r \in {"none", "git", "svn"} :
            /\ repository' = r
            /\ IF RepositoryUsable(r)
               THEN Proceed("getJSON", "getTmpDir")
               ELSE Abort("getJSON", Err("Error", "repository"))
    /\ UNCHANGED <<version, gitVars, tarVars, compareVars, chainVars, diffVars,
                   lateStarts, dirs>>

\* mkdir of one directory: lines 140 (getTmpDir), 144, 146.
Mkdir(step, next, dir) ==
    /\ pc = step
    /\ \/ /\ Proceed(step, next)
          /\ dirs' = dirs \cup {dir}
       \/ /\ Abort(step, Err("FsError", step))
          /\ UNCHANGED dirs
    /\ UNCHANGED <<inputVars, gitVars, tarVars, compareVars, chainVars, diffVars,
                   lateStarts>>

GetTmpDir == Mkdir("getTmpDir", "mkdirGit", "tmp")
MkdirGit == Mkdir("mkdirGit", "mkdirNpm", "git")
MkdirNpm == Mkdir("mkdirNpm", "clone", "npm")

\* A git command that only succeeds or fails: lines 280 and 282.
Git(step, next) ==
    /\ pc = step
    /\ \/ Proceed(step, next)
       \/ Abort(step, Err("GitError", step))
    /\ UNCHANGED <<inputVars, gitVars, tarVars, compareVars, chainVars, diffVars,
                   lateStarts, dirs>>

Clone == Git("clone", "fetch")
Fetch == Git("fetch", "tags")

\* lines 283-286: g.tags(), then the choice of the tag.
Tags ==
    /\ pc = "tags"
    /\ \/ /\ Abort("tags", Err("GitError", "tags"))
          /\ UNCHANGED <<tags, tag>>
       \/ \E list \in TagLists :
            /\ tags' = list
            /\ tag' = FindTag(list, version)
            /\ IF FindTag(list, version) = <<>>
               THEN Abort("tags", Err("Error", "tagNotFound"))
               ELSE Proceed("tags", "checkout")
    /\ UNCHANGED <<inputVars, checkedOut, tarVars, compareVars, chainVars, diffVars,
                   lateStarts, dirs>>

\* line 287
Checkout ==
    /\ pc = "checkout"
    /\ \/ /\ Proceed("checkout", "request")
          /\ checkedOut' = tag
       \/ /\ Abort("checkout", Err("GitError", "checkout"))
          /\ UNCHANGED checkedOut
    /\ UNCHANGED <<inputVars, tags, tag, tarVars, compareVars, chainVars, diffVars,
                   lateStarts, dirs>>

(***************************************************************************)
(* downloadFile.  The executor is an async function: when axios rejects,   *)
(* the executor's own promise rejects and neither resolve nor reject of    *)
(* the promise downloadFile returned is ever called.                       *)
(***************************************************************************)
\* lines 241-246; cloneVersionToDir has returned, its locals are gone.
Request ==
    /\ pc = "request"
    /\ started' = started \cup {"request"}
    /\ \/ /\ pc' = "stream"
          /\ UNCHANGED firstFailure
       \/ /\ pc' = "hung"
          /\ firstFailure' = Err("AxiosError", "request")
    /\ tags' = <<>>
    /\ tag' = <<>>
    /\ UNCHANGED <<outcome, inputVars, checkedOut, tarVars, compareVars, chainVars,
                   diffVars, lateStarts, dirs>>

\* lines 247-253: 'error' rejects; 'end' of the response stream resolves,
\* whether or not the write stream has written everything it was handed.
Stream ==
    /\ pc = "stream"
    /\ \/ /\ Abort("stream", Err("StreamError", "stream"))
          /\ tarball' = "partial"
       \/ /\ Proceed("stream", "untar")
          /\ tarball' \in {"partial", "complete"}
    /\ UNCHANGED <<inputVars, gitVars, untarSaw, compareVars, chainVars, diffVars,
                   lateStarts, dirs>>

\* The write stream finishes writing.  Once tar has opened the file the
\* moment of the last write changes nothing the script observes.
Flush ==
    /\ tarball = "partial"
    /\ pc = "untar"
    /\ tarball' = "complete"
    /\ UNCHANGED <<checkVars, inputVars, gitVars, untarSaw, compareVars, chainVars,
                   diffVars, lateStarts, dirs>>

\* line 156: tar of a truncated archive ends with an error.
Untar ==
    /\ pc = "untar"
    /\ untarSaw' = tarball
    /\ \/ /\ tarball = "complete"
          /\ Proceed("untar", "mv")
       \/ Abort("untar", ExecError("untar"))
    /\ UNCHANGED <<inputVars, gitVars, tarball, compareVars, chainVars, diffVars,
                   lateStarts, dirs>>

\* exec of a command that succeeds or fails: lines 157, 214-215, 219-221.
Exec(step, next) ==
    /\ pc = step
    /\ \/ Proceed(step, next)
       \/ Abort(step, ExecError(step))
    /\ UNCHANGED <<inputVars, gitVars, tarVars, compareVars, chainVars, diffVars,
                   lateStarts, dirs>>

\* lines 300 and 301: cd dir && (first || second).  exec resolves when the
\* first command succeeds and when it fails and the second succeeds, and
\* cannot tell the two apart; it rejects when cd fails or both commands
\* fail.  With `echo 1` second, only a failing cd rejects.
ExecOr(step, next) == Exec(step, next)

\* line 214: with .git gone the tree is at no ref any more.
RmGitDotGit ==
    /\ pc = "rmGitDotGit"
    /\ \/ /\ Proceed("rmGitDotGit", "rmGitModules")
          /\ checkedOut' = <<>>
       \/ /\ Abort("rmGitDotGit", ExecError("rmGitDotGit"))
          /\ UNCHANGED checkedOut
    /\ UNCHANGED <<inputVars, tags, tag, tarVars, compareVars, chainVars, diffVars,
                   lateStarts, dirs>>

Move == Exec("mv", "installGit")
InstallGit == ExecOr("installGit", "buildGit")
BuildGit == ExecOr("buildGit", "rmGitDotGit")
RmGitModules == Exec("rmGitModules", "installNpm")
InstallNpm == ExecOr("installNpm", "buildNpm")
BuildNpm == ExecOr("buildNpm", "rmNpmPackage")
RmNpmPackage == Exec("rmNpmPackage", "rmNpmModules")
RmNpmModules == Exec("rmNpmModules", "rmNpmTgz")
RmNpmTgz == Exec("rmNpmTgz", "getFiles")

(***************************************************************************)
(* compareDirs.  The callbacks of the files run concurrently under         *)
(* Promise.all; one callback is one action.                                *)
(***************************************************************************)
\* line 183: the files under the npm tree, or readdir/stat fails.
GetFiles ==
    /\ pc = "getFiles"
    /\ \/ /\ Abort("getFiles", Err("FsError", "getFiles"))
          /\ UNCHANGED <<nFiles, cbState, entries>>
       \/ \E n \in 0..MaxFiles :
            /\ Proceed("getFiles", "compare")
            /\ nFiles' = n
            /\ cbState' = [i \in 1..n |-> "pending"]
            /\ entries' = [i \in 1..n |-> <<>>]
    /\ UNCHANGED <<inputVars, gitVars, tarVars, unreadable, diff, chainVars, diffVars,
                   lateStarts, dirs>>

\* lines 188-205 for file i.  A failed read of the reference rejects; a
\* failed read of the candidate is logged and leaves compareFileContent
\* undefined.  The first callback to throw rejects Promise.all, and with it
\* doCheck.
CompareFile(i) ==
    /\ pc = "compare"
    /\ cbState[i] = "pending"
    /\ started' = started \cup {"compare"}
    /\ \/ /\ cbState' = [cbState EXCEPT ![i] = "threw"]
          /\ pc' = "settled"
          /\ outcome' = Rejected(Err("FsError", "readRef"))
          /\ firstFailure' = Err("FsError", "readRef")
          /\ UNCHANGED <<entries, unreadable>>
       \/ \E refText \in TreeRefContents :
          \E cmp \in {Undefined} \cup {Text(t) : t \in TreeCompareContents} :
            LET r == Callback(refText, cmp)
            IN  /\ unreadable' = IF cmp.defined THEN unreadable ELSE unreadable \cup {i}
                /\ IF r.state = "threw"
                   THEN /\ cbState' = [cbState EXCEPT ![i] = "threw"]
                        /\ pc' = "settled"
                        /\ outcome' = Rejected(Err("TypeError", "diffTrimmedLines"))
                        /\ firstFailure' = Err("FsError", "readCompare")
                        /\ UNCHANGED entries
                   ELSE /\ cbState' = [cbState EXCEPT ![i] = "done"]
                        /\ entries' = [entries EXCEPT ![i] = r.diff]
                        /\ UNCHANGED <<pc, outcome, firstFailure>>
    /\ UNCHANGED <<inputVars, gitVars, tarVars, nFiles, diff, chainVars, diffVars,
                   lateStarts, dirs>>

\* A callback still running when Promise.all has rejected: its reads go on,
\* and the read of the candidate starts once the reference has been read.
LateRead(i) ==
    /\ pc = "settled"
    /\ ~exited
    /\ cbState[i] = "pending"
    /\ cbState' = [cbState EXCEPT ![i] = "abandoned"]
    /\ \/ lateStarts' = lateStarts \cup {"readCompare"}
       \/ UNCHANGED lateStarts
    /\ UNCHANGED <<checkVars, inputVars, gitVars, tarVars, nFiles, entries, unreadable,
                   diff, chainVars, diffVars, dirs>>

\* lines 165-171: every callback has returned.
Verdict ==
    /\ pc = "compare"
    /\ \A i \in 1..nFiles : cbState[i] = "done"
    /\ LET list == [i \in 1..nFiles |-> [file |-> i, diff |-> entries[i]]]
       IN  /\ diff' = list
           /\ outcome' = IF Len(ValidDiffs(list)) > 0
                         THEN Rejected(Thrown(ValidDiffs(list)))
                         ELSE Resolved
    /\ pc' = "settled"
    /\ started' = started \cup {"compare"}
    /\ UNCHANGED <<firstFailure, inputVars, gitVars, tarVars, nFiles, cbState, entries,
                   unreadable, chainVars, diffVars, lateStarts, dirs>>

(***************************************************************************)
(* The report chain, lines 56-120:                                         *)
(*   doCheck(package).then(success).catch(failure).catch(die)              *)
(***************************************************************************)
Exit(code) ==
    /\ hpc' = "done"
    /\ exited' = TRUE
    /\ exitCode' = code

\* lines 58-67
ThenWriteFile ==
    /\ hpc = "pending"
    /\ outcome.state = "resolved"
    /\ \/ /\ reports' = reports \cup {"C"}
          /\ hpc' = "thenWebhook"
          /\ UNCHANGED caught
       \/ /\ hpc' = "catch"
          /\ caught' = Err("GithubError", "writeFile")
          /\ UNCHANGED reports
    /\ UNCHANGED <<checkVars, inputVars, gitVars, tarVars, compareVars, evidence, issue,
                   exited, exitCode, diffVars, lateStarts, dirs>>

\* line 69; the chain is over when the handler returns, and node ends with
\* code 0.
ThenWebhook ==
    /\ hpc = "thenWebhook"
    /\ \/ /\ Exit(0)
          /\ UNCHANGED caught
       \/ /\ hpc' = "catch"
          /\ caught' = Err("AxiosError", "webhook")
          /\ UNCHANGED <<exited, exitCode>>
    /\ UNCHANGED <<checkVars, inputVars, gitVars, tarVars, compareVars, reports, evidence,
                   issue, diffVars, lateStarts, dirs>>

\* lines 71-83: the handler runs for a rejection of doCheck and for one of
\* the success handler.  JSON.stringify of an axios error reaches the
\* request object and may throw; the last .catch then ends the process.
Catch ==
    /\ \/ hpc = "catch"
       \/ hpc = "pending" /\ outcome.state = "rejected"
    /\ LET diffs == IF hpc = "catch" THEN caught ELSE outcome.value
       IN  \/ /\ caught' = diffs
              /\ hpc' = "catchWriteFile"
              /\ UNCHANGED <<exited, exitCode>>
           \/ /\ diffs.kind = "AxiosError"
              /\ caught' = diffs
              /\ Exit(1)
    /\ UNCHANGED <<checkVars, inputVars, gitVars, tarVars, compareVars, reports, evidence,
                   issue, diffVars, lateStarts, dirs>>

\* lines 84-89
CatchWriteFile ==
    /\ hpc = "catchWriteFile"
    /\ \/ /\ reports' = reports \cup {"F"}
          /\ evidence' = caught
          /\ hpc' = "catchWebhook"
          /\ UNCHANGED <<exited, exitCode>>
       \/ /\ Exit(1)
          /\ UNCHANGED <<reports, evidence>>
    /\ UNCHANGED <<checkVars, inputVars, gitVars, tarVars, compareVars, caught, issue,
                   diffVars, lateStarts, dirs>>

\* lines 91-96
CatchWebhook ==
    /\ hpc = "catchWebhook"
    /\ \/ /\ hpc' = "catchIssue"
          /\ UNCHANGED <<exited, exitCode>>
       \/ Exit(1)
    /\ UNCHANGED <<checkVars, inputVars, gitVars, tarVars, compareVars, caught, reports,
                   evidence, issue, diffVars, lateStarts, dirs>>

\* lines 98-115; the handler returns and node ends with code 0.
CatchIssue ==
    /\ hpc = "catchIssue"
    /\ \/ /\ issue' = TRUE
          /\ Exit(0)
       \/ /\ Exit(1)
          /\ UNCHANGED issue
    /\ UNCHANGED <<checkVars, inputVars, gitVars, tarVars, compareVars, caught, reports,
                   evidence, diffVars, lateStarts, dirs>>

\* doCheck never settles and nothing is left to run: node ends with code 0,
\* or with code 1 where the unhandled rejection of the executor is fatal.
HungExit ==
    /\ pc = "hung"
    /\ ~exited
    /\ exited' = TRUE
    /\ exitCode' \in {0, 1}
    /\ UNCHANGED <<checkVars, inputVars, gitVars, tarVars, compareVars, hpc, caught,
                   reports, evidence, issue, diffVars, lateStarts, dirs>>

Next ==
    \/ GetJSON
    \/ GetTmpDir
    \/ MkdirGit
    \/ MkdirNpm
    \/ Clone
    \/ Fetch
    \/ Tags
    \/ Checkout
    \/ Request
    \/ Stream
    \/ Flush
    \/ Untar
    \/ Move
    \/ InstallGit
    \/ BuildGit
    \/ RmGitDotGit
    \/ RmGitModules
    \/ InstallNpm
    \/ BuildNpm
    \/ RmNpmPackage
    \/ RmNpmModules
    \/ RmNpmTgz
    \/ GetFiles
    \/ \E i \in 1..nFiles : CompareFile(i)
    \/ \E i \in 1..nFiles : LateRead(i)
    \/ Verdict
    \/ ThenWriteFile
    \/ ThenWebhook
    \/ Catch
    \/ CatchWriteFile
    \/ CatchWebhook
    \/ CatchIssue
    \/ HungExit

Spec == Init /\ [][Next]_vars

\* Every pending callback of node is eventually run.
FairSpec == Spec /\ WF_vars(Next)

(***************************************************************************)
(* The comparator alone: one file, its two texts, the recorded diff.       *)
(***************************************************************************)
InitDiff ==
    /\ version = <<"1">>
    /\ InitRun
    /\ refFileContent \in RefContents
    /\ compareFileContent \in {Undefined} \cup {Text(t) : t \in CompareContents}
    /\ fileDiff = NotCalled

DiffFile ==
    /\ fileDiff = NotCalled
    /\ fileDiff' = Callback(refFileContent, compareFileContent)
    /\ UNCHANGED <<checkVars, inputVars, gitVars, tarVars, compareVars, chainVars,
                   refFileContent, compareFileContent, lateStarts, dirs>>

NextDiff == DiffFile

SpecDiff == InitDiff /\ [][NextDiff]_vars

(***************************************************************************)
(* Properties                                                              *)
(***************************************************************************)
\* The operations of doCheck in program order.
Order == <<"getJSON", "getTmpDir", "mkdirGit", "mkdirNpm", "clone", "fetch", "tags",
           "checkout", "request", "stream", "untar", "mv", "installGit", "buildGit",
           "rmGitDotGit", "rmGitModules", "installNpm", "buildNpm", "rmNpmPackage",
           "rmNpmModules", "rmNpmTgz", "getFiles", "compare">>

Position(step) == CHOOSE i \in 1..Len(Order) : Order[i] = step
After(step) == {Order[i] : i \in (Position(step) + 1)..Len(Order)}

\* Every step has completed and compareDirs has returned its list.
Completed == pc = "settled" /\ firstFailure = NoError

WithDiff(list) == {i \in 1..Len(list) : Len(list[i].diff) > 0}

\* `out` holds every entry of `list` that has a diff, and nothing else.
ExactlyTheNonEmpty(out, list) ==
    /\ Len(out) = Cardinality(WithDiff(list))
    /\ \A k \in 1..Len(out) : Len(out[k].diff) > 0
    /\ \A i \in WithDiff(list) : \E k \in 1..Len(out) : out[k] = list[i]

AddedSegments(d) == Len(SelectSeq(d, IsAdded))

RemoveAt(text, i) == SubSeq(text, 1, i - 1) \o SubSeq(text, i + 1, Len(text))

\* C2: when the candidate is the reference plus one appended (non-blank)
\* line, the recorded diff of the file has exactly one added segment; when
\* the candidate is the reference with one line removed, the recorded diff
\* of the file has no segment at all.
C2_Asymmetry ==
    (fileDiff.state = "returned") =>
        /\ (\E l \in RawLines :
                /\ Trim(l) # ""
                /\ compareFileContent.text = Append(refFileContent, l))
              => AddedSegments(fileDiff.diff) = 1
        /\ (\E i \in 1..Len(refFileContent) :
                compareFileContent.text = RemoveAt(refFileContent, i))
              => Len(fileDiff.diff) = 0

\* C3: when the candidate of some file could not be read, the check does not
\* pass, and what doCheck rejects with is that failed read of the candidate.
C3_UnreadableCandidateRecorded ==
    unreadable # {} =>
        /\ outcome.state = "rejected"
        /\ outcome.value = Err("FsError", "readCompare")

\* C4: when the metadata has no repository or one that is not of type git,
\* doCheck is rejected, no directory has been made and nothing after the
\* fetch of the metadata has been started.
C4_NoRepositoryNoClone ==
    repository \in {"none", "svn"} =>
        /\ outcome.state = "rejected"
        /\ dirs = {}
        /\ started \subseteq {"getJSON"}

C4_Witness == repository = "svn" /\ outcome.state = "rejected"

TagsReturned ==
    /\ "tags" \in started
    /\ "request" \notin started
    /\ firstFailure # Err("GitError", "tags")

IsFirstMatch(t, tagList, v) ==
    \E i \in 1..Len(tagList) :
        /\ tagList[i] = t
        /\ Includes(tagList[i], v)
        /\ \A j \in 1..(i - 1) : ~Includes(tagList[j], v)

\* C5: once g.tags() has returned its list: if some tag contains the version,
\* the tag chosen, and the tag checked out, is the first of the list that
\* does; if none does, doCheck is rejected with the tag-not-found error,
\* nothing is checked out and no later operation is started.
C5_FirstMatchingTag ==
    TagsReturned =>
        IF \E i \in 1..Len(tags) : Includes(tags[i], version)
        THEN /\ IsFirstMatch(tag, tags, version)
             /\ firstFailure # Err("Error", "tagNotFound")
             /\ ("checkout" \in started /\ firstFailure = NoError) => checkedOut = tag
             /\ checkedOut \in {<<>>, tag}
        ELSE /\ outcome = Rejected(Err("Error", "tagNotFound"))
             /\ checkedOut = <<>>
             /\ started \cap After("tags") = {}

\* A checkout from a list in which two tags contain the version.
C5_Witness ==
    /\ TagsReturned
    /\ checkedOut # <<>>
    /\ Cardinality({i \in 1..Len(tags) : Includes(tags[i], version)}) = 2
    /\ tags[1] # tags[2]

FailedAt(step) == firstFailure # NoError /\ firstFailure.at = step

\* C6: an operation is started only when the one before it has completed,
\* and tar is started only on a tarball that is completely on disk.
C6_StrictlySequential ==
    /\ \A i \in 2..Len(Order) :
          Order[i] \in started => (Order[i - 1] \in started /\ ~FailedAt(Order[i - 1]))
    /\ "untar" \in started => untarSaw = "complete"

\* C7: once an operation of the check has failed, no operation is started
\* any more and doCheck is rejected with the error of that operation.
C7_FailurePolicy ==
    firstFailure # NoError =>
        /\ outcome = Rejected(firstFailure)
        /\ lateStarts = {}

\* C8: a run whose check failed ends with a non-zero exit code, the failure
\* handler having been given what doCheck rejected with; a run whose check
\* passed ends with a 'C' report.
C8_RunOutcome ==
    exited =>
        /\ outcome.state = "rejected" => (exitCode # 0 /\ caught = outcome.value)
        /\ outcome.state = "resolved" => "C" \in reports

\* C9: the promise of doCheck eventually settles.
C9_EventuallySettles == <>(outcome.state # "pending")

\* C10: when doCheck resolved, no 'F' report is written and no issue is
\* created.
C10_GradeConsistency ==
    outcome.state = "resolved" => ("F" \notin reports /\ ~issue)

====
